---- MODULE Spec2Model ----
(***************************************************************************)
(* Google-Foobar: two independent pure functions.                          *)
(*   AncestorFinder    solution(h, q)  of 2.5_Ion_Flux_Relabelling.py      *)
(*   AbsorptionSolver  solution(m)     of 3.1_Doomsday_Fuel.py             *)
(* A behaviour is one call of one of the two functions: Init draws the     *)
(* function and its arguments, the actions are the steps of the call.      *)
(***************************************************************************)
EXTENDS Integers, Sequences, FiniteSets, TLC

\* Bounds of the model.
MaxH == 3
MaxQ == 2
MaxN == 3
MaxObs == 4
MaxWideObs == 2

VARIABLES call, pc, h, q, parentLabels, stack, visits, m, result

vars == <<call, pc, h, q, parentLabels, stack, visits, m, result>>

\* The outcome of a call: nothing yet, a returned list, or a raised exception.
NoResult == [kind |-> "none", val |-> <<>>]
Returned(v) == [kind |-> "ok", val |-> v]
Raised(e) == [kind |-> "error", val |-> <<e>>]

RECURSIVE Pow2(_)
Pow2(n) == IF n <= 0 THEN 1 ELSE 2 * Pow2(n - 1)

(***************************************************************************)
(* AncestorFinder                                                          *)
(***************************************************************************)

\* maxSize = (2**h) - 1.  For h < 0 Python's 2**h is a float in (0, 1), so
\* maxSize lies in (-1, 0); it is only ever compared with 1 (line 29), and is
\* represented here by -1.
MaxSizeOf(height) == IF height >= 0 THEN Pow2(height) - 1 ELSE -1

\* OrderedDict((converter, -1) for converter in q): an association list in
\* first-insertion order; a repeated key keeps its first position.
HasKey(d, k) == \E i \in 1..Len(d) : d[i][1] = k
Lookup(d, k) == d[CHOOSE i \in 1..Len(d) : d[i][1] = k][2]
SetItem(d, k, v) ==
    IF HasKey(d, k)
    THEN [i \in 1..Len(d) |-> IF d[i][1] = k THEN <<k, v>> ELSE d[i]]
    ELSE Append(d, <<k, v>>)
RECURSIVE OrderedDictOf(_, _)
OrderedDictOf(d, labels) ==
    IF labels = <<>> THEN d
    ELSE OrderedDictOf(SetItem(d, Head(labels), -1), Tail(labels))
Values(d) == [i \in 1..Len(d) |-> d[i][2]]

\* The label arithmetic of one dfs call (lines 31-37).
Half(subtreeSize) == subtreeSize \div 2
LeftNode(offset, half) == offset + half
RightNode(leftNode, half) == leftNode + half
ParentNodeSame(rightNode) == rightNode
ParentNode(rightNode) == rightNode + 1

\* Lines 39-42: record the parent of a queried label on its first visit only.
RecordAlways(d, node, parentNode) ==
    IF HasKey(d, node) THEN SetItem(d, node, parentNode) ELSE d
Record(d, node, parentNode) ==
    IF HasKey(d, node) /\ Lookup(d, node) = -1
    THEN SetItem(d, node, parentNode)
    ELSE d

\* A pending call dfs(subtreeSize, offset).
Frame(subtreeSize, offset) == [subtreeSize |-> subtreeSize, offset |-> offset]

\* Lines 48-55: maxSize, parentLabels, and the first call dfs(maxSize, 0).
TreeStart ==
    /\ call = "AncestorFinder"
    /\ pc = "start"
    /\ parentLabels' = OrderedDictOf(<<>>, q)
    /\ stack' = <<Frame(MaxSizeOf(h), 0)>>
    /\ pc' = "dfs"
    /\ UNCHANGED <<call, h, q, visits, m, result>>

\* Line 29: a call on an empty subtree returns at once.
DfsReturn ==
    /\ call = "AncestorFinder"
    /\ pc = "dfs"
    /\ stack # <<>>
    /\ Head(stack).subtreeSize < 1
    /\ stack' = Tail(stack)
    /\ UNCHANGED <<call, pc, h, q, parentLabels, visits, m, result>>

\* Lines 31-45: a call on a non-empty subtree computes the three labels,
\* records them, and calls dfs on the left and then on the right subtree.
DfsVisit ==
    /\ call = "AncestorFinder"
    /\ pc = "dfs"
    /\ stack # <<>>
    /\ Head(stack).subtreeSize >= 1
    /\ LET half == Half(Head(stack).subtreeSize)
           offset == Head(stack).offset
           leftNode == LeftNode(offset, half)
           rightNode == RightNode(leftNode, half)
           parentNode == ParentNode(rightNode)
       IN /\ parentLabels' =
                Record(Record(parentLabels, leftNode, parentNode),
                       rightNode, parentNode)
          /\ stack' = <<Frame(half, offset), Frame(half, leftNode)>>
                          \o Tail(stack)
    /\ visits' = visits + 1
    /\ UNCHANGED <<call, pc, h, q, m, result>>

\* Line 56: return list(parentLabels.values()).
TreeReturn ==
    /\ call = "AncestorFinder"
    /\ pc = "dfs"
    /\ stack = <<>>
    /\ result' = Returned(Values(parentLabels))
    /\ pc' = "done"
    /\ UNCHANGED <<call, h, q, parentLabels, stack, visits, m>>

\* The arguments of a call of AncestorFinder.
RECURSIVE SeqsOf(_, _)
SeqsOf(S, n) ==
    IF n = 0 THEN {<<>>}
    ELSE {Append(s, x) : s \in SeqsOf(S, n - 1), x \in S}
SeqsUpTo(S, n) == UNION {SeqsOf(S, len) : len \in 0..n}
QueryLabels(height) == -1 .. Pow2(height)
\* The source's own inputs (lines 18-20, 60, 61).
TreeSamples == { <<3, <<1, 4, 7>>>>, <<3, <<7, 3, 5, 1>>>>, <<5, <<19, 14, 28>>>> }
InitTree ==
    /\ call = "AncestorFinder"
    /\ pc = "start"
    /\ \/ \E sample \in TreeSamples : h = sample[1] /\ q = sample[2]
       \/ \E height \in -1..MaxH :
             /\ h = height
             /\ q \in SeqsUpTo(QueryLabels(height), MaxQ)
    /\ parentLabels = <<>>
    /\ stack = <<>>
    /\ visits = 0
    /\ m = <<>>
    /\ result = NoResult

(***************************************************************************)
(* AbsorptionSolver                                                        *)
(*                                                                         *)
(* The source computes in double precision and recovers fractions with     *)
(* Fraction(num).limit_denominator().  A double is represented here by the *)
(* exact rational it approximates (the rounding error of a double, about   *)
(* 1e-16, is far below the 1e-12 resolution of limit_denominator), and     *)
(* limit_denominator is modelled in full on that rational.                 *)
(***************************************************************************)

Abs(x) == IF x < 0 THEN -x ELSE x
RECURSIVE GCD(_, _)
GCD(a, b) == IF b = 0 THEN a ELSE GCD(b, a % b)

\* A rational <<numerator, denominator>> in lowest terms, denominator > 0.
Rat(n, d) ==
    LET g == GCD(Abs(n), Abs(d))
        s == IF d < 0 THEN -1 ELSE 1
    IN <<s * (n \div g), s * (d \div g)>>
RZero == <<0, 1>>
ROne == <<1, 1>>
RAdd(x, y) == Rat(x[1] * y[2] + y[1] * x[2], x[2] * y[2])
RSub(x, y) == Rat(x[1] * y[2] - y[1] * x[2], x[2] * y[2])
RMul(x, y) == Rat(x[1] * y[1], x[2] * y[2])
RDiv(x, y) == Rat(x[1] * y[2], x[2] * y[1])

RECURSIVE SumSeq(_)
SumSeq(s) == IF s = <<>> THEN 0 ELSE Head(s) + SumSeq(Tail(s))
RECURSIVE RSumSeq(_)
RSumSeq(s) == IF s = <<>> THEN RZero ELSE RAdd(Head(s), RSumSeq(Tail(s)))

\* Lines 52-55: the absorbing states, as 1-based row numbers.
AbsorbingStates(mat) == {row \in 1..Len(mat) : SumSeq(mat[row]) = 0}
Indices(n) == [i \in 1..n |-> i]
AbsorbingCols(mat) ==
    LET IsAbsorbing(i) == i \in AbsorbingStates(mat)
    IN SelectSeq(Indices(Len(mat)), IsAbsorbing)
NonAbsorbingRows(mat) ==
    LET IsTransient(i) == i \notin AbsorbingStates(mat)
    IN SelectSeq(Indices(Len(mat)), IsTransient)

\* Lines 57-69 read m[row][col] for every col in range(len(m)) of every
\* non-absorbing row: a row shorter than len(m) raises IndexError.
SplitRaises(mat) ==
    {row \in 1..Len(mat) : row \notin AbsorbingStates(mat) /\ Len(mat[row]) < Len(mat)} # {}

\* Lines 61, 67, 69: m[row][col] / total_transitions.
Probability(mat, row, col) == Rat(mat[row][col], SumSeq(mat[row]))

\* Lines 57-72: split_matrix.
RSubmatrix(mat) ==
    LET rows == NonAbsorbingRows(mat)
        cols == AbsorbingCols(mat)
    IN [i \in 1..Len(rows) |->
          [j \in 1..Len(cols) |-> Probability(mat, rows[i], cols[j])]]
QSubmatrix(mat) ==
    LET rows == NonAbsorbingRows(mat)
    IN [i \in 1..Len(rows) |->
          [j \in 1..Len(rows) |-> Probability(mat, rows[i], rows[j])]]

\* Lines 79-81: np.subtract(np.identity(size_of_q), q_submatrix).
IdentityMinus(Q) ==
    [i \in 1..Len(Q) |->
       [j \in 1..Len(Q) |-> RSub(IF i = j THEN ROne ELSE RZero, Q[i][j])]]

\* A list with its elements computed once.
Row(s) == SubSeq(s, 1, Len(s))

\* Line 82: np.linalg.inv, as Gauss-Jordan elimination on [A | I].  The exact
\* inverse does not depend on the pivot order, so the first non-zero pivot is
\* taken where LAPACK takes the largest.
RECURSIVE GaussJordan(_, _, _)
GaussJordan(M, c, k) ==
    IF c > k THEN [singular |-> FALSE, mat |-> M]
    ELSE LET cand == {r \in c..k : M[r][c][1] # 0}
         IN IF cand = {} THEN [singular |-> TRUE, mat |-> M]
            ELSE LET p == CHOOSE r \in cand : \A s \in cand : r <= s
                     swapped == [M EXCEPT ![c] = M[p], ![p] = M[c]]
                     piv == swapped[c][c]
                     prow == Row([j \in 1..(2 * k) |-> RDiv(swapped[c][j], piv)])
                     elim == Row([r \in 1..k |->
                                IF r = c THEN prow
                                ELSE Row([j \in 1..(2 * k) |->
                                        RSub(swapped[r][j],
                                             RMul(swapped[r][c], prow[j]))])])
                 IN GaussJordan(elim, c + 1, k)
Augmented(A) ==
    LET k == Len(A)
    IN [i \in 1..k |->
          [j \in 1..(2 * k) |->
             IF j <= k THEN A[i][j]
             ELSE IF j - k = i THEN ROne ELSE RZero]]
Inverse(A) ==
    LET k == Len(A)
        gj == GaussJordan(Augmented(A), 1, k)
    IN [singular |-> gj.singular,
        mat |-> [i \in 1..k |-> [j \in 1..k |-> gj.mat[i][j + k]]]]

\* Lines 74-82: find_f_submatrix.
FindFSubmatrix(Q) == Inverse(IdentityMinus(Q))

\* Lines 41-42: row 0 of np.dot(f_submatrix, r_submatrix).
FRRow0(F, R) ==
    LET cols == IF Len(R) = 0 THEN 0 ELSE Len(R[1])
    IN [j \in 1..cols |->
          RSumSeq([t \in 1..Len(R) |-> RMul(F[1][t], R[t][j])])]

\* Line 88: limit_denominator() with its default max_denominator.
MaxDenominator == 1000000

\* fractions.Fraction.limit_denominator: the continued-fraction convergents
\* p1/q1 of n/d while the denominator stays within MaxDenominator, then the
\* closer of bound1 = (p0+k*p1)/(q0+k*q1) and bound2 = p1/q1.  The test
\* abs(bound2 - self) <= abs(bound1 - self) is 2*d*(q0+k*q1) <= self.denominator
\* (the form CPython itself uses since 3.12), written without the product.
RECURSIVE Convergents(_, _, _, _, _, _, _)
Convergents(p0, q0, p1, q1, n, d, den) ==
    LET a == n \div d
        q2 == q0 + a * q1
    IN IF q2 > MaxDenominator
       THEN LET k == (MaxDenominator - q0) \div q1
            IN IF 2 * (q0 + k * q1) <= den \div d
               THEN Rat(p1, q1)
               ELSE Rat(p0 + k * p1, q0 + k * q1)
       ELSE Convergents(p1, q1, p0 + a * p1, q2, d, n - a * d, den)
LimitDenominator(x) ==
    IF x[2] <= MaxDenominator THEN x
    ELSE Convergents(0, 1, 1, 0, x[1], x[2], x[2])

\* Lines 92-98: the least common denominator, by Euclid's algorithm.
LcdProduct(lcd, denom) == lcd * denom
LcdStep(lcd, denom) == (lcd \div GCD(lcd, denom)) * denom
RECURSIVE Lcd(_, _)
Lcd(lcd, denominators) ==
    IF denominators = <<>> THEN lcd
    ELSE Lcd(LcdStep(lcd, Head(denominators)), Tail(denominators))

\* Lines 84-104: probabilities(row).  lcd is a multiple of every denominator,
\* so int(lcd / denominators[num]) on line 101 is the exact quotient.
Fractions(row) == [i \in 1..Len(row) |-> LimitDenominator(row[i])]
Probabilities(row) ==
    LET fr == Fractions(row)
        lcd == Lcd(1, [i \in 1..Len(fr) |-> fr[i][2]])
    IN Append([i \in 1..Len(fr) |-> fr[i][1] * (lcd \div fr[i][2])], lcd)

\* Line 38.
Trivial(mat) == IF Len(mat) <= 1 THEN TRUE ELSE SumSeq(mat[1]) = 0

\* Line 38: if len(m) <= 1 or sum(m[0]) == 0: return [1, 1].
SolveTrivial ==
    /\ call = "AbsorptionSolver"
    /\ pc = "start"
    /\ Trivial(m)
    /\ result' = Returned(<<1, 1>>)
    /\ pc' = "done"
    /\ UNCHANGED <<call, h, q, parentLabels, stack, visits, m>>

\* Line 39 on a matrix with a short non-absorbing row: IndexError.
SolveIndexError ==
    /\ call = "AbsorptionSolver"
    /\ pc = "start"
    /\ ~Trivial(m)
    /\ SplitRaises(m)
    /\ result' = Raised("IndexError")
    /\ pc' = "done"
    /\ UNCHANGED <<call, h, q, parentLabels, stack, visits, m>>

\* Lines 39-42 when I - Q has an inverse.
Solve ==
    /\ call = "AbsorptionSolver"
    /\ pc = "start"
    /\ ~Trivial(m)
    /\ ~SplitRaises(m)
    /\ LET F == FindFSubmatrix(QSubmatrix(m))
       IN /\ ~F.singular
          /\ result' = Returned(Probabilities(FRRow0(F.mat, RSubmatrix(m))))
    /\ pc' = "done"
    /\ UNCHANGED <<call, h, q, parentLabels, stack, visits, m>>

\* Lines 39-42 when I - Q is singular.  np.linalg.inv raises LinAlgError when
\* the factorisation meets a zero pivot; when rounding leaves a tiny non-zero
\* pivot instead it returns a matrix of meaningless values, from which line 42
\* still builds a vector (or Fraction raises on inf/nan).  Either can happen.
Meaningless == { <<0, 1>>, <<1, 3>>, <<5, 2>> }
SolveSingular ==
    /\ call = "AbsorptionSolver"
    /\ pc = "start"
    /\ ~Trivial(m)
    /\ ~SplitRaises(m)
    /\ FindFSubmatrix(QSubmatrix(m)).singular
    /\ \/ result' = Raised("LinAlgError")
       \/ \E row \in [1..Len(AbsorbingCols(m)) -> Meaningless] :
             result' = Returned(Probabilities(row))
    /\ pc' = "done"
    /\ UNCHANGED <<call, h, q, parentLabels, stack, visits, m>>

\* The arguments of a call of AbsorptionSolver: every n x n matrix of counts
\* with n <= MaxN and at most MaxObs observed transitions in all, every
\* n x (n-1) and n x (n+1) matrix with at most MaxWideObs, the source's two
\* sample matrices, and a matrix of large counts.
RECURSIVE CountSeqs(_, _)
CountSeqs(len, total) ==
    IF len = 0 THEN {<<>>}
    ELSE { cells \in { Append(s, c) : s \in CountSeqs(len - 1, total), c \in 0..total } :
             SumSeq(cells) <= total }
Reshape(cells, n, w) ==
    [i \in 1..n |-> SubSeq(cells, (i - 1) * w + 1, i * w)]
Matrices(n, w, total) == { Reshape(cells, n, w) : cells \in CountSeqs(n * w, total) }
ZeroRow(n) == [j \in 1..n |-> 0]
\* Lines 107 and 110.
t1 == << <<0, 2, 1, 0, 0>>, <<0, 0, 0, 3, 4>>, ZeroRow(5), ZeroRow(5), ZeroRow(5) >>
t2 == << <<0, 1, 0, 0, 0, 1>>, <<4, 0, 0, 3, 2, 0>>,
         ZeroRow(6), ZeroRow(6), ZeroRow(6), ZeroRow(6) >>
LargeCounts ==
    { << <<0, 5000001, 4999995, 4>>, ZeroRow(4), ZeroRow(4), ZeroRow(4) >> }
InitMatrix ==
    /\ call = "AbsorptionSolver"
    /\ pc = "start"
    /\ \/ m \in {t1, t2} \cup LargeCounts
       \/ \E n \in 0..MaxN : m \in Matrices(n, n, MaxObs)
       \/ \E n \in 1..MaxN : m \in Matrices(n, n - 1, MaxWideObs)
       \/ \E n \in 1..MaxN : m \in Matrices(n, n + 1, MaxWideObs)
    /\ h = 0
    /\ q = <<>>
    /\ parentLabels = <<>>
    /\ stack = <<>>
    /\ visits = 0
    /\ result = NoResult

Init == InitTree \/ InitMatrix


Next ==
    \/ TreeStart
    \/ DfsReturn
    \/ DfsVisit
    \/ TreeReturn
    \/ SolveTrivial
    \/ SolveIndexError
    \/ Solve
    \/ SolveSingular

Spec == Init /\ [][Next]_vars

(***************************************************************************)
(* Reference notions the claims are stated with.                           *)
(***************************************************************************)

TreeDone == call = "AncestorFinder" /\ pc = "done"
MatrixDone == call = "AbsorptionSolver" /\ pc = "done"

\* The perfect binary tree of the given height, its nodes named by their path
\* from the root.  In post-order a node is numbered after its whole subtree
\* and after the subtree of every left sibling on its path.
TreePaths(height) == SeqsUpTo({"L", "R"}, height - 1)
RECURSIVE LeftSiblings(_, _, _)
LeftSiblings(height, path, i) ==
    IF i > Len(path) THEN 0
    ELSE (IF path[i] = "R" THEN Pow2(height - i) - 1 ELSE 0)
         + LeftSiblings(height, path, i + 1)
PostOrderLabel(height, path) ==
    LeftSiblings(height, path, 1) + Pow2(height - Len(path)) - 1
Front(s) == SubSeq(s, 1, Len(s) - 1)
PostOrderParent(height, x) ==
    LET node == CHOOSE path \in TreePaths(height) : PostOrderLabel(height, path) = x
    IN IF node = <<>> THEN -1 ELSE PostOrderLabel(height, Front(node))

InRange(height, x) == 1 <= x /\ x <= Pow2(height) - 1
Distinct(s) == \A i, j \in 1..Len(s) : i # j => s[i] # s[j]

\* Every queried label has a recorded parent.
AllResolved ==
    /\ call = "AncestorFinder"
    /\ pc = "dfs"
    /\ parentLabels # <<>>
    /\ \A i \in 1..Len(parentLabels) : parentLabels[i][2] # -1

Square(mat) == \A i \in 1..Len(mat) : Len(mat[i]) = Len(mat)
RECURSIVE CanReach(_, _)
CanReach(mat, S) ==
    LET more == S \cup {i \in 1..Len(mat) : \E j \in S : mat[i][j] > 0}
    IN IF more = S THEN S ELSE CanReach(mat, more)
\* Every non-terminal state has a path to a terminal state.
Absorbing(mat) == CanReach(mat, AbsorbingStates(mat)) = 1..Len(mat)
\* Row 0 of (I - Q)^-1 * R, exactly.
AbsorptionProbabilities(mat) ==
    FRRow0(FindFSubmatrix(QSubmatrix(mat)).mat, RSubmatrix(mat))
RECURSIVE GcdSeq(_)
GcdSeq(s) == IF s = <<>> THEN 0 ELSE GCD(Abs(Head(s)), GcdSeq(Tail(s)))
Numerators(v) == SubSeq(v, 1, Len(v) - 1)
Denominator(v) == v[Len(v)]

(***************************************************************************)
(* The claims.                                                             *)
(***************************************************************************)

\* The parent-or-sentinel answer for distinct in-range labels.
ParentsCorrect ==
    (TreeDone /\ h >= 1 /\ Distinct(q) /\ \A i \in 1..Len(q) : InRange(h, q[i]))
    => /\ result.kind = "ok"
       /\ Len(result.val) = Len(q)
       /\ \A i \in 1..Len(q) : result.val[i] = PostOrderParent(h, q[i])
       /\ \A i \in 1..Len(q) : q[i] = Pow2(h) - 1 => result.val[i] = -1

\* C1 as stated: for h >= 1 and distinct labels of 1..2^h-1 every output entry
\* is the post-order parent of its label, -1 for the root, and
\* solution(3,[1,4,7]) = [3,6,-1], solution(5,[19,14,28]) = [21,15,-1].
C1_AsStated ==
    /\ ParentsCorrect
    /\ (TreeDone /\ h = 3 /\ q = <<1, 4, 7>>) => result.val = <<3, 6, -1>>
    /\ (TreeDone /\ h = 5 /\ q = <<19, 14, 28>>) => result.val = <<21, 15, -1>>

\* C1 amended: the same, with solution(5,[19,14,28]) = [21,15,29]: label 28 is
\* not the root of the tree of height 5 (that is 31); its parent is 29.
C1_Parents ==
    /\ ParentsCorrect
    /\ (TreeDone /\ h = 3 /\ q = <<1, 4, 7>>) => result.val = <<3, 6, -1>>
    /\ (TreeDone /\ h = 5 /\ q = <<19, 14, 28>>) => result.val = <<21, 15, 29>>
C1_Witness ==
    TreeDone /\ h = 5 /\ q = <<19, 14, 28>> /\ result.val = <<21, 15, 29>>

\* C2: for a square matrix whose state 0 is transient and whose transient
\* states all reach a terminal state, numerator[i] / denominator is the exact
\* absorption probability of the i-th terminal state, row 0 of (I-Q)^-1 R.
C2_ExactProbabilities ==
    (MatrixDone /\ Len(m) >= 1 /\ Square(m) /\ SumSeq(m[1]) > 0 /\ Absorbing(m))
    => /\ result.kind = "ok"
       /\ Len(result.val) = Len(AbsorbingCols(m)) + 1
       /\ Denominator(result.val) > 0
       /\ \A i \in 1..Len(AbsorbingCols(m)) :
             Rat(result.val[i], Denominator(result.val))
                 = AbsorptionProbabilities(m)[i]

\* C3: for h >= 1 every queried label outside [1, 2^h-1] yields -1, and no
\* exception is raised.
C3_OutOfRangeSentinel ==
    (TreeDone /\ h >= 1)
    => /\ result.kind = "ok"
       /\ \A i \in 1..Len(parentLabels) :
             ~InRange(h, parentLabels[i][1]) => result.val[i] = -1

\* C4: the output has exactly len(q) entries, the i-th being the answer
\* recorded for the i-th queried label, also when a label is repeated (stated
\* here for the documented inputs: h >= 1 and labels of the tree).
C4_OneEntryPerQuery ==
    (TreeDone /\ h >= 1 /\ \A i \in 1..Len(q) : InRange(h, q[i]))
    => /\ Len(result.val) = Len(q)
       /\ \A i \in 1..Len(q) : result.val[i] = Lookup(parentLabels, q[i])

\* C5: for a valid n x n matrix, n >= 1, the output is one numerator per
\* terminal state followed by the denominator: its length is the number of
\* zero-sum rows plus one, also when state 0 is terminal.
C5_OneNumeratorPerTerminal ==
    (MatrixDone /\ Len(m) >= 1 /\ Square(m) /\ Absorbing(m))
    => /\ result.kind = "ok"
       /\ Len(result.val) = Cardinality(AbsorbingStates(m)) + 1

\* C6: when every non-terminal state can reach a terminal state, the
\* numerators sum to the denominator, every numerator is >= 0 and the
\* denominator is >= 1.
C6_SumsToOne ==
    (MatrixDone /\ Square(m) /\ Absorbing(m))
    => /\ result.kind = "ok"
       /\ SumSeq(Numerators(result.val)) = Denominator(result.val)
       /\ \A i \in 1..Len(result.val) - 1 : result.val[i] >= 0
       /\ Denominator(result.val) >= 1

C8_NonAbsorbingRejected ==
    (MatrixDone /\ Len(m) >= 1 /\ Square(m) /\ ~Absorbing(m))
    => result.kind = "error"

\* C9: an empty or non-square matrix, and a height below 1, end in an error.
C9_InvalidShapeRejected ==
    /\ (MatrixDone /\ (Len(m) = 0 \/ ~Square(m))) => result.kind = "error"
    /\ (TreeDone /\ h < 1) => result.kind = "error"

\* C10 as stated: once every queried label has a recorded parent, no further
\* dfs call computes labels.
C10_EarlyExit == [][AllResolved => visits' = visits]_vars

\* C10 amended: dfs has no early exit.  It visits every one of the 2^h - 1
\* subtrees whatever has been resolved; the calls made once every queried
\* label has a recorded parent leave parentLabels as it is.
C10_FullTraversal ==
    /\ [](TreeDone /\ h >= 1 => visits = Pow2(h) - 1)
    /\ [][AllResolved => parentLabels' = parentLabels]_vars
C10_Witness ==
    AllResolved /\ stack # <<>> /\ Head(stack).subtreeSize >= 1


====
